---- MODULE Spec2Model ----
(***************************************************************************)
(* CodeActionAdapter (lib/adapters/code-action-adapter.js).                *)
(*                                                                         *)
(* The adapter has two static methods: canAdapt, a predicate over the      *)
(* server's capabilities, and getCodeActions, an async function that       *)
(* converts the diagnostics, reconciles their codes with the linter        *)
(* adapter's cache, sends one textDocument/codeAction request and wraps    *)
(* each returned Command in an object {apply, getTitle, dispose}.          *)
(*                                                                         *)
(* JavaScript values are modelled by name: JsUndefined, JsNull, JsFalse,   *)
(* JsTrue and JsObject (any object, e.g. a CodeActionOptions literal).     *)
(* A nullable Atom range is a set with at most one element ({} is null),   *)
(* because a range is a record and the other nullable values are strings.  *)
(*                                                                         *)
(* The connection, the server capabilities and the linter adapter are      *)
(* objects of the session and live as long as the behaviour; editor,       *)
(* range, diagnostics and the locals of getCodeActions are its activation  *)
(* record, which exists from the call until the returned promise settles.  *)
(***************************************************************************)
EXTENDS Integers, Sequences, FiniteSets, TLC

\* ------------------------------------------------------------------ bounds
MaxDiags == 2    \* longest diagnostics list passed to getCodeActions
MaxCmds  == 2    \* longest Command list a codeAction response carries
MaxApply == 2    \* executeCommand requests observed on the connection

\* --------------------------------------------------------------- JS values
JsUndefined == "undefined"
JsNull      == "null"
JsFalse     == "false"
JsTrue      == "true"
JsObject    == "object"

\* ToBoolean of the values above.
Truthy(v) == v \notin {JsUndefined, JsNull, JsFalse}

\* x == null / x != null (loose equality: null and undefined only).
LooseNull(v) == v \in {JsNull, JsUndefined}

\* ------------------------------------------------------------ input domains
CapValues == {JsUndefined, JsFalse, JsTrue, JsObject}
Capabilities == [codeActionProvider : CapValues]

LinterAdapter == "LinterPushV2Adapter"
AdapterValues == {JsNull, JsUndefined, LinterAdapter}

Editors == {"a.js"}
Point(r, c) == [row |-> r, column |-> c]
AtomRanges == {[start |-> Point(0, 1), end |-> Point(0, 4)]}
Texts == {"T1", "T2"}
Codes == {"E042"}

NullRange == {}
NullableRanges == {NullRange} \cup {{r} : r \in AtomRanges}
NullableTexts  == {JsNull} \cup Texts

\* atomIde$Diagnostic: the fields the adapter reads.
Diagnostics == [range : NullableRanges, text : NullableTexts]

RECURSIVE SeqsUpTo(_, _)
SeqsUpTo(S, n) ==
  IF n = 0 THEN {<<>>}
  ELSE LET shorter == SeqsUpTo(S, n - 1)
       IN  shorter \cup {Append(s, x) : s \in {t \in shorter : Len(t) = n - 1}, x \in S}

DiagnosticLists == SeqsUpTo(Diagnostics, MaxDiags)

\* The linter adapter's code cache: (editor, range, text) -> code or null.
CacheKeys == Editors \X AtomRanges \X Texts
EmptyCache == [k \in CacheKeys |-> JsNull]
\* A code stored for the first text and none for the second (a hit and a miss).
Caches == {[k \in CacheKeys |-> IF k[3] = "T1" THEN c ELSE JsNull] : c \in Codes}

\* LSP Command entries a server may answer with.
CommandPool ==
  { [command |-> "fix.a", arguments |-> <<1>>, title |-> "Fix A"],
    [command |-> "fix.b", arguments |-> <<>>,  title |-> "Fix B"] }
Responses == SeqsUpTo(CommandPool, MaxCmds)

RpcErrors == {"timeout", "transport"}
AssertionError == "AssertionError"
NoError == "none"
NoTitle == "none"
NoEditor == "none"

VARIABLES
  serverCapabilities,  \* the server's capabilities (session)
  linterAdapter,       \* JsNull, JsUndefined or LinterAdapter (session)
  codeCache,           \* the linter adapter's diagnostic codes (session)
  gate,                \* what canAdapt returned to the caller, "unchecked" before
  pc,                  \* position of the getCodeActions call
  editor, range, diagnostics,   \* arguments of the call in progress
  idx,                 \* diagnostics.map: index of the next element
  converted,           \* diagnostics.map: the array built so far
  queries,             \* getDiagnosticCode calls made by this call
  inflight,            \* codeAction request awaiting its response (at most one)
  nCodeAction,         \* codeAction requests sent on the connection
  commands,            \* `commands`: what the awaited request resolved to
  actions,             \* the array the promise resolved to
  error,               \* what the promise rejected with
  rpcError,            \* what connection.codeAction rejected with
  executeReqs,         \* executeCommand requests sent on the connection
  applyCalls,          \* per returned action: apply() calls made
  disposed,            \* returned actions on which dispose() was called
  lastTitle            \* <<i, t>>: getTitle() of action i resolved to t

vars == <<serverCapabilities, linterAdapter, codeCache, gate, pc, editor, range,
          diagnostics, idx, converted, queries, inflight, nCodeAction, commands,
          actions, error, rpcError, executeReqs, applyCalls, disposed, lastTitle>>

\* ------------------------------------------------------- external interfaces
\* Convert.editorToTextDocumentIdentifier
editorToTextDocumentIdentifier(ed) == [uri |-> <<"file://", ed>>]

\* Convert.atomRangeToLSRange: Atom (row, column) points to LSP (line, character).
atomRangeToLSRange(r) ==
  [start |-> [line |-> r.start.row, character |-> r.start.column],
   end   |-> [line |-> r.end.row,   character |-> r.end.column]]

\* Convert.atomIdeDiagnosticToLSDiagnostic: the wire diagnostic, with no code.
atomIdeDiagnosticToLSDiagnostic(d) ==
  [range   |-> {atomRangeToLSRange(r) : r \in d.range},
   message |-> IF d.text = JsNull THEN "" ELSE d.text,
   code    |-> JsUndefined]

\* LinterPushV2Adapter.getDiagnosticCode: the stored code, or null.
getDiagnosticCode(cache, ed, rng, txt) ==
  IF <<ed, rng, txt>> \in DOMAIN cache THEN cache[<<ed, rng, txt>>] ELSE JsNull

\* ------------------------------------------------------------- the adapter
canAdaptTruthy(caps) == Truthy(caps.codeActionProvider)
\* canAdapt: serverCapabilities.codeActionProvider === true
canAdapt(caps) == caps.codeActionProvider = JsTrue

linterAdapterStrictNull(adapter) == adapter = JsNull
\* linterAdapter == null
linterAdapterIsNull(adapter) == LooseNull(adapter)

invariantDefined(caps) == caps.codeActionProvider # JsUndefined
\* invariant(serverCapabilities.codeActionProvider, ...): passes on a truthy value
invariantHolds(caps) == Truthy(caps.codeActionProvider)

shouldLookupRangeOnly(d) == d.range # NullRange
\* diagnostic.range != null && diagnostic.text != null
shouldLookup(d) == d.range # NullRange /\ d.text # JsNull

TheRange(nullable) == CHOOSE r \in nullable : TRUE

\* The getDiagnosticCode call the map callback makes for d, if any.
lookupsOf(ed, d) ==
  IF shouldLookup(d)
  THEN <<[editor |-> ed, range |-> TheRange(d.range), text |-> d.text]>>
  ELSE <<>>

mapDiagnosticAssignAlways(cache, ed, d) ==
  LET conv == atomIdeDiagnosticToLSDiagnostic(d)
  IN  IF shouldLookup(d)
      THEN [conv EXCEPT !.code = getDiagnosticCode(cache, ed, TheRange(d.range), d.text)]
      ELSE conv
\* The callback of diagnostics.map: convert, then set the stored code if there is one.
mapDiagnostic(cache, ed, d) ==
  LET conv == atomIdeDiagnosticToLSDiagnostic(d)
  IN  IF shouldLookup(d)
      THEN LET code == getDiagnosticCode(cache, ed, TheRange(d.range), d.text)
           IN  IF ~LooseNull(code) THEN [conv EXCEPT !.code = code] ELSE conv
      ELSE conv

mapPushCodedOnly(arr, item) == IF item.code = JsUndefined THEN arr ELSE Append(arr, item)
\* Array.prototype.map stores the callback's result at the element's index.
mapPush(arr, item) == Append(arr, item)

mapDoneEarly(i, diags) == i >= Len(diags)
\* diagnostics.map has visited every element.
mapDone(i, diags) == i > Len(diags)

\* The parameter object of connection.codeAction.
codeActionParams(ed, rng, wire) ==
  [textDocument |-> editorToTextDocumentIdentifier(ed),
   range        |-> atomRangeToLSRange(rng),
   context      |-> [diagnostics |-> wire]]

awaitSwallowed(err) == [pc |-> "resolved", error |-> NoError]
\* await of a rejected promise, with no try/catch around it: the async
\* function's promise rejects with the same reason.
awaitRejected(err) == [pc |-> "rejected", error |-> err]

\* An element of the returned array: the closure over `command`.
makeCodeAction(command) == [command |-> command]

mapCommandsLast(cmds) == [i \in 1..Len(cmds) |-> makeCodeAction(cmds[Len(cmds)])]
\* commands.map(command => ({apply, getTitle, dispose}))
mapCommands(cmds) == [i \in 1..Len(cmds) |-> makeCodeAction(cmds[i])]

executeCommandParamsNoArgs(action) ==
  [command |-> action.command.command, arguments |-> <<>>]
\* The parameter object apply() passes to connection.executeCommand.
executeCommandParams(action) ==
  [command |-> action.command.command, arguments |-> action.command.arguments]

\* getTitle(): Promise.resolve(command.title)
getTitle(action) == action.command.title

applyOnce(log, i, action) ==
  IF \E k \in 1..Len(log) : log[k].from = i
  THEN log
  ELSE Append(log, [from |-> i, params |-> executeCommandParams(action),
                    status |-> "pending"])
\* apply(): one connection.executeCommand request, then await it.
apply(log, i, action) ==
  Append(log, [from |-> i, params |-> executeCommandParams(action),
               status |-> "pending"])

\* ------------------------------------------------------------------- Init
Init ==
  /\ serverCapabilities \in Capabilities
  /\ \/ linterAdapter \in {JsNull, JsUndefined} /\ codeCache = EmptyCache
     \/ linterAdapter = LinterAdapter /\ codeCache \in Caches
  /\ gate = "unchecked"
  /\ pc = "start"
  /\ editor = NoEditor /\ range = NullRange /\ diagnostics = <<>>
  /\ idx = 0 /\ converted = <<>> /\ queries = <<>>
  /\ inflight = {} /\ nCodeAction = 0
  /\ commands = <<>> /\ actions = <<>>
  /\ error = NoError /\ rpcError = NoError
  /\ executeReqs = <<>> /\ applyCalls = <<>>
  /\ disposed = {} /\ lastTitle = <<0, NoTitle>>

session == <<serverCapabilities, linterAdapter, codeCache>>
frame   == <<editor, range, diagnostics, idx, converted, queries>>
results == <<commands, actions, error, rpcError>>
uses    == <<executeReqs, applyCalls, disposed, lastTitle>>

\* The activation record is gone once the promise has settled.
FramePopped ==
  /\ editor' = NoEditor /\ range' = NullRange /\ diagnostics' = <<>>
  /\ idx' = 0 /\ converted' = <<>> /\ queries' = <<>>

\* The caller asks the gate.
CanAdapt ==
  /\ pc = "start"
  /\ gate' = IF canAdapt(serverCapabilities) THEN JsTrue ELSE JsFalse
  /\ pc' = "idle"
  /\ UNCHANGED <<session, frame, inflight, nCodeAction, results, uses>>

\* getCodeActions(connection, serverCapabilities, linterAdapter, editor, range, diagnostics)
GetCodeActions(ed, rng, diags) ==
  /\ pc = "idle"
  /\ editor' = ed /\ range' = {rng} /\ diagnostics' = diags
  /\ pc' = "entry"
  /\ UNCHANGED <<session, gate, idx, converted, queries, inflight, nCodeAction,
                 results, uses>>

\* if (linterAdapter == null) return [];
CheckLinterAdapter ==
  /\ pc = "entry"
  /\ IF linterAdapterIsNull(linterAdapter)
     THEN /\ pc' = "resolved" /\ actions' = <<>> /\ FramePopped
     ELSE /\ pc' = "invariant" /\ UNCHANGED <<actions, frame>>
  /\ UNCHANGED <<session, gate, inflight, nCodeAction, commands, error, rpcError, uses>>

\* invariant(serverCapabilities.codeActionProvider, 'Must have ...');
CheckInvariant ==
  /\ pc = "invariant"
  /\ IF invariantHolds(serverCapabilities)
     THEN /\ pc' = "map" /\ idx' = 1
          /\ UNCHANGED <<error, editor, range, diagnostics, converted, queries>>
     ELSE /\ pc' = "rejected" /\ error' = AssertionError /\ FramePopped
  /\ UNCHANGED <<session, gate, inflight, nCodeAction, commands, actions, rpcError, uses>>

\* One call of the callback of diagnostics.map.
MapDiagnostic ==
  /\ pc = "map"
  /\ ~mapDone(idx, diagnostics)
  /\ idx <= Len(diagnostics)
  /\ LET d == diagnostics[idx]
     IN  /\ queries' = queries \o lookupsOf(editor, d)
         /\ converted' = mapPush(converted, mapDiagnostic(codeCache, editor, d))
  /\ idx' = idx + 1
  /\ UNCHANGED <<session, gate, pc, editor, range, diagnostics, inflight,
                 nCodeAction, results, uses>>

\* connection.codeAction({textDocument, range, context}): the request goes out.
SendCodeAction ==
  /\ pc = "map"
  /\ mapDone(idx, diagnostics)
  /\ inflight' = inflight \cup {codeActionParams(editor, TheRange(range), converted)}
  /\ nCodeAction' = nCodeAction + 1
  /\ pc' = "await"
  /\ UNCHANGED <<session, gate, frame, results, uses>>

\* The request resolves with cmds; the function returns commands.map(...).
CodeActionResolve(cmds) ==
  /\ pc = "await"
  /\ inflight' = {}
  /\ commands' = cmds
  /\ actions' = mapCommands(cmds)
  /\ applyCalls' = [i \in 1..Len(cmds) |-> 0]
  /\ pc' = "resolved"
  /\ FramePopped
  /\ UNCHANGED <<session, gate, nCodeAction, error, rpcError, executeReqs,
                 disposed, lastTitle>>

\* The request rejects with err.
CodeActionReject(err) ==
  /\ pc = "await"
  /\ inflight' = {}
  /\ rpcError' = err
  /\ pc' = awaitRejected(err).pc
  /\ error' = awaitRejected(err).error
  /\ FramePopped
  /\ UNCHANGED <<session, gate, nCodeAction, commands, actions, uses>>

\* actions[i].apply() up to its await.
Apply(i) ==
  /\ pc = "resolved"
  /\ i \in 1..Len(actions)
  /\ Len(executeReqs) < MaxApply
  /\ executeReqs' = apply(executeReqs, i, actions[i])
  /\ applyCalls' = [applyCalls EXCEPT ![i] = @ + 1]
  /\ UNCHANGED <<session, gate, pc, frame, inflight, nCodeAction, results,
                 disposed, lastTitle>>

\* An executeCommand request resolves: the apply() promise resolves.
ExecuteCommandResolve(k) ==
  /\ k \in 1..Len(executeReqs)
  /\ executeReqs[k].status = "pending"
  /\ executeReqs' = [executeReqs EXCEPT ![k].status = "resolved"]
  /\ UNCHANGED <<session, gate, pc, frame, inflight, nCodeAction, results,
                 applyCalls, disposed, lastTitle>>

\* An executeCommand request rejects: the apply() promise rejects.
ExecuteCommandReject(k) ==
  /\ k \in 1..Len(executeReqs)
  /\ executeReqs[k].status = "pending"
  /\ executeReqs' = [executeReqs EXCEPT ![k].status = "rejected"]
  /\ UNCHANGED <<session, gate, pc, frame, inflight, nCodeAction, results,
                 applyCalls, disposed, lastTitle>>

\* actions[i].getTitle()
GetTitle(i) ==
  /\ pc = "resolved"
  /\ i \in 1..Len(actions)
  /\ lastTitle' = <<i, getTitle(actions[i])>>
  /\ UNCHANGED <<session, gate, pc, frame, inflight, nCodeAction, results,
                 executeReqs, applyCalls, disposed>>

\* actions[i].dispose(): an empty body.
Dispose(i) ==
  /\ pc = "resolved"
  /\ i \in 1..Len(actions)
  /\ disposed' = disposed \cup {i}
  /\ UNCHANGED <<session, gate, pc, frame, inflight, nCodeAction, results,
                 executeReqs, applyCalls, lastTitle>>

Next ==
  \/ CanAdapt
  \/ \E ed \in Editors, rng \in AtomRanges, diags \in DiagnosticLists :
       GetCodeActions(ed, rng, diags)
  \/ CheckLinterAdapter
  \/ CheckInvariant
  \/ MapDiagnostic
  \/ SendCodeAction
  \/ \E cmds \in Responses : CodeActionResolve(cmds)
  \/ \E err \in RpcErrors : CodeActionReject(err)
  \/ \E i \in 1..MaxCmds : Apply(i)
  \/ \E k \in 1..MaxApply : ExecuteCommandResolve(k)
  \/ \E k \in 1..MaxApply : ExecuteCommandReject(k)
  \/ \E i \in 1..MaxCmds : GetTitle(i)
  \/ \E i \in 1..MaxCmds : Dispose(i)

Spec == Init /\ [][Next]_vars

\* ------------------------------------------------------- the properties
provider == serverCapabilities.codeActionProvider
adapterPresent == linterAdapter \notin {JsNull, JsUndefined}

\* The diagnostic has a range and a text (stated on the fields themselves).
Eligible(d) == d.range # {} /\ d.text # JsNull

\* What the cache holds for the diagnostic.
Stored(d) == codeCache[<<editor, TheRange(d.range), d.text>>]

\* The getDiagnosticCode calls due for the first n diagnostics, in order.
RECURSIVE DueQueries(_)
DueQueries(n) ==
  IF n = 0 THEN <<>>
  ELSE LET d == diagnostics[n]
       IN  IF Eligible(d)
           THEN Append(DueQueries(n - 1),
                       [editor |-> editor, range |-> TheRange(d.range), text |-> d.text])
           ELSE DueQueries(n - 1)

\* The executeCommand requests that apply() of action i sent.
SentBy(i) == {k \in 1..Len(executeReqs) : executeReqs[k].from = i}

\* What a request built from the i-th Command of the response carries.
ParamsOf(i) == [command |-> commands[i].command, arguments |-> commands[i].arguments]

\* C1: canAdapt(c) is true if and only if c.codeActionProvider is exactly the
\* boolean true; absent, false and a non-boolean value all yield false.
C1_CanAdaptIffTrue ==
  gate # "unchecked" => (gate = JsTrue <=> provider = JsTrue)

C1_Witness == gate = JsFalse /\ provider = JsObject

C4_OneRequestHoweverMany ==
  \A i \in 1..Len(actions) :
    applyCalls[i] >= 1 => Cardinality(SentBy(i)) = 1

\* C4 amended: every apply() call sends one executeCommand request, so n calls
\* send n requests, each carrying the command name and argument list of the
\* Command the action was built from.
C4_OneRequestPerApply ==
  /\ \A i \in 1..Len(actions) : Cardinality(SentBy(i)) = applyCalls[i]
  /\ \A k \in 1..Len(executeReqs) :
       /\ executeReqs[k].from \in 1..Len(commands)
       /\ executeReqs[k].params = ParamsOf(executeReqs[k].from)

C4_Witness ==
  \E i \in 1..Len(actions) :
    /\ applyCalls[i] = 2 /\ Cardinality(SentBy(i)) = 2
    /\ commands[i].arguments # <<>>

\* C5: the wire diagnostic's code is v exactly when the diagnostic has a range
\* and a text and the cache returns the non-null v for them; with a null range
\* or text the cache is not queried; on a miss the code stays as the
\* conversion produced it, and the request is still sent.
C5_Reconciliation ==
  /\ \A j \in 1..Len(converted) :
       LET d == diagnostics[j]
       IN  converted[j].code =
             IF Eligible(d) /\ Stored(d) # JsNull
             THEN Stored(d)
             ELSE atomIdeDiagnosticToLSDiagnostic(d).code
  /\ pc \in {"map", "await"} => queries = DueQueries(idx - 1)
  /\ pc = "await" =>
       /\ idx = Len(diagnostics) + 1
       /\ \A req \in inflight : req.context.diagnostics = converted

C5_Witness ==
  /\ pc = "await" /\ Len(diagnostics) = 2
  /\ Eligible(diagnostics[1]) /\ Eligible(diagnostics[2])
  /\ \E req \in inflight :
       /\ req.context.diagnostics[1].code = JsUndefined
       /\ req.context.diagnostics[2].code = "E042"

\* C6: in the codeAction request the wire diagnostics are as many as the input
\* diagnostics, and the i-th is the conversion of the i-th input (with its
\* reconciled code): none dropped, duplicated or reordered.
C6_OrderPreserved ==
  pc = "await" =>
    /\ inflight # {}
    /\ \A req \in inflight :
         LET wire == req.context.diagnostics
         IN  /\ Len(wire) = Len(diagnostics)
             /\ \A i \in 1..Len(wire) :
                  wire[i] = [atomIdeDiagnosticToLSDiagnostic(diagnostics[i])
                               EXCEPT !.code = wire[i].code]

C6_Witness ==
  /\ pc = "await" /\ Len(diagnostics) = 2
  /\ diagnostics[1].text # diagnostics[2].text
  /\ \E req \in inflight :
       /\ req.context.diagnostics[1].message = "T2"
       /\ req.context.diagnostics[2].message = "T1"
       /\ req.context.diagnostics[2].code # JsUndefined

\* C7: the promise resolves to as many actions as the response has Commands,
\* in the same order: the i-th action's getTitle() resolves to the i-th
\* Command's title and its apply() sends the i-th Command's name and arguments.
C7_ResponseMapping ==
  (pc = "resolved" /\ adapterPresent) =>
    /\ Len(actions) = Len(commands)
    /\ \A i \in 1..Len(actions) :
         /\ getTitle(actions[i]) = commands[i].title
         /\ lastTitle[1] = i => lastTitle[2] = commands[i].title
         /\ \A k \in SentBy(i) :
              /\ executeReqs[k].params.command = commands[i].command
              /\ executeReqs[k].params.arguments = commands[i].arguments

C7_Witness ==
  /\ pc = "resolved" /\ Len(commands) = 2 /\ commands[1] # commands[2]
  /\ lastTitle = <<1, commands[1].title>>
  /\ SentBy(1) # {} /\ SentBy(2) # {}

\* C8: when the codeAction request fails, the promise rejects with that same
\* failure, no action is returned, the request is not sent again and no
\* executeCommand is sent.
C8_FailurePropagates ==
  rpcError # NoError =>
    /\ pc = "rejected" /\ error = rpcError
    /\ actions = <<>> /\ inflight = {}
    /\ nCodeAction = 1 /\ executeReqs = <<>>

C8_Witness == rpcError = "timeout" /\ pc = "rejected" /\ error = "timeout"

\* C9: a call with the linter adapter present and the precondition passed
\* sends exactly one codeAction request and no executeCommand request; every
\* cache lookup is made before the request is sent, and the actions exist only
\* after its response.
C9_OneRequestInOrder ==
  /\ pc \in {"start", "idle", "entry", "invariant", "map"} => nCodeAction = 0
  /\ (pc \in {"await", "resolved", "rejected"} /\ adapterPresent /\ Truthy(provider))
       => nCodeAction = 1
  /\ pc # "resolved" => executeReqs = <<>>
  /\ pc = "await" => Cardinality(inflight) = 1 /\ queries = DueQueries(Len(diagnostics))
  /\ pc # "map" => idx \in {0, Len(diagnostics) + 1}
  /\ actions # <<>> => pc = "resolved" /\ inflight = {} /\ actions = mapCommands(commands)
  /\ pc # "resolved" => actions = <<>> /\ commands = <<>>

C9_Witness ==
  pc = "await" /\ Len(queries) = 2 /\ nCodeAction = 1 /\ provider = JsObject

\* C10: an action keeps no "already invoked" state: every apply() call sends a
\* fresh executeCommand request with the same name and arguments, whatever was
\* sent before, also after an earlier apply() failed or dispose() was called.
C10_EveryApplySends ==
  [][\A i \in 1..Len(actions) :
       (i \in DOMAIN applyCalls /\ applyCalls'[i] = applyCalls[i] + 1)
         => executeReqs' = Append(executeReqs,
                                  [from |-> i, params |-> ParamsOf(i), status |-> "pending"])]_vars

C10_Witness ==
  \E i \in disposed :
    \E k, m \in SentBy(i) :
      k < m /\ executeReqs[k].status = "rejected" /\ executeReqs[m].status = "pending"

====
